---- MODULE Spec2Model ----
(***************************************************************************)
(* Voice chess arena: the self-contained ChessBoard component (the variant *)
(* that validates moves itself, without a chess library) together with the *)
(* ChessGame component that owns the turn, the move history and the        *)
(* opponent-reply timer.                                                   *)
(*                                                                         *)
(* ChessGame is the variant without a chess library as well (handleMove,   *)
(* makeEngineMove, startNewGame).  That variant does not pass the          *)
(* lastVoiceCommand property the board reads; the state lastVoiceCommand   *)
(* and its only writer handleVoiceMove are those of the later variant.     *)
(*                                                                         *)
(* Strings are modelled as sequences of one-character strings, so that     *)
(* the regular expressions, toLowerCase, trim, split and the notation      *)
(* codec are computed character by character.  A null reference is the     *)
(* record Null.  The timestamp of a move record (new Date()) and the       *)
(* display symbol of a piece (a function of kind and color) are left out.  *)
(*                                                                         *)
(* React scheduling: an event handler runs to completion with the state of *)
(* the last render, its state updates are committed together, and the      *)
(* effects whose dependencies changed run before the next event is         *)
(* handled.  pendingEffects holds the effects that the last commit         *)
(* scheduled; every handler waits until it is empty.  A new board array    *)
(* (every setBoard of executeMove) is a changed dependency even when the   *)
(* position is the same.                                                   *)
(***************************************************************************)
EXTENDS Integers, Sequences, FiniteSets, TLC

VARIABLES
    board,            \* ChessBoard: useState board
    selectedSquare,   \* ChessBoard: useState selectedSquare
    validMoves,       \* ChessBoard: useState validMoves
    moveHistory,      \* ChessGame: useState moveHistory
    currentPlayer,    \* ChessGame: useState currentPlayer
    gameStarted,      \* ChessGame: useState gameStarted
    gameMode,         \* ChessGame: useState gameMode
    lastVoiceCommand, \* ChessGame: useState lastVoiceCommand
    timers,           \* number of pending setTimeout(makeEngineMove) callbacks
    pendingEffects,   \* effects of ChessBoard scheduled by the last commit
    executed,         \* observation: number of executeMove calls so far
    voiceState        \* observation: what the current transcript has done so far:
                      \* "fresh" (not evaluated), "dropped" (its first evaluation
                      \* made no move) or "moved" (it has made a move)

vars == <<board, selectedSquare, validMoves, moveHistory, currentPlayer,
          gameStarted, gameMode, lastVoiceCommand, timers, pendingEffects,
          executed, voiceState>>

(***************************************************************************)
(* Bounds                                                                  *)
(***************************************************************************)
MaxMoves == 3

\* the longest transcript that is built from VoiceChars
MaxVoiceLen == 4

\* the longest string that is handed to parseSquareNotation
MaxNotationLen == 3

Null == [null |-> TRUE]

Rows == 0..7
Cols == 0..7

Pos(r, c) == [row |-> r, col |-> c]

Piece(t, c) == [type |-> t, color |-> c]

(***************************************************************************)
(* Board state                                                             *)
(***************************************************************************)
backRank == <<"rook", "knight", "bishop", "queen", "king", "bishop", "knight", "rook">>

initialBoard ==
    [r \in Rows |-> [c \in Cols |->
        CASE r = 0 -> Piece(backRank[c + 1], "black")
          [] r = 1 -> Piece("pawn", "black")
          [] r = 6 -> Piece("pawn", "white")
          [] r = 7 -> Piece(backRank[c + 1], "white")
          [] OTHER -> Null]]

(***************************************************************************)
(* Notation codec                                                          *)
(***************************************************************************)
files == <<"a", "b", "c", "d", "e", "f", "g", "h">>
ranks == <<"8", "7", "6", "5", "4", "3", "2", "1">>

\* String.prototype.indexOf on a string of distinct characters, 0-based
IndexOf(str, ch) ==
    IF \E i \in 1..Len(str) : str[i] = ch
    THEN (CHOOSE i \in 1..Len(str) : str[i] = ch /\ \A j \in 1..(i - 1) : str[j] # ch) - 1
    ELSE -1

\* a notation that counts the ranks from the top row: row 0 is rank 1
getSquareNotationFromTop(row, col) == <<files[col + 1], ranks[8 - row]>>

getSquareNotation(row, col) == <<files[col + 1], ranks[row + 1]>>

parseSquareNotation(notation) ==
    IF Len(notation) # 2 THEN Null
    ELSE LET col == IndexOf(files, notation[1])
             row == IndexOf(ranks, notation[2])
         IN  IF col = -1 \/ row = -1 THEN Pos(-1, -1) ELSE Pos(row, col)

(***************************************************************************)
(* Legality engine                                                         *)
(***************************************************************************)
Abs(n) == IF n < 0 THEN 0 - n ELSE n

\* a step that never goes towards the smaller index
StepUp(from, to) == IF to = from THEN 0 ELSE 1

Step(from, to) == IF to = from THEN 0 ELSE IF to > from THEN 1 ELSE -1

RECURSIVE PathLoop(_, _, _, _, _, _, _)
\* the while loop of isPathClear, from the cell (currentRow, currentCol)
PathLoop(b, currentRow, currentCol, toRow, toCol, rowStep, colStep) ==
    IF currentRow # toRow \/ currentCol # toCol
    THEN IF b[currentRow][currentCol] # Null THEN FALSE
         ELSE PathLoop(b, currentRow + rowStep, currentCol + colStep, toRow, toCol, rowStep, colStep)
    ELSE TRUE

RECURSIVE PathCells(_, _, _, _, _, _, _)
\* the cells the while loop of isPathClear reads, in order, from the cell
\* (currentRow, currentCol); a read outside the grid ends the sequence
PathCells(b, currentRow, currentCol, toRow, toCol, rowStep, colStep) ==
    IF currentRow # toRow \/ currentCol # toCol
    THEN IF currentRow \notin Rows \/ currentCol \notin Cols
         THEN <<Pos(currentRow, currentCol)>>
         ELSE IF b[currentRow][currentCol] # Null THEN <<Pos(currentRow, currentCol)>>
         ELSE <<Pos(currentRow, currentCol)>>
                 \o PathCells(b, currentRow + rowStep, currentCol + colStep, toRow, toCol, rowStep, colStep)
    ELSE <<>>

\* the cells isPathClear(fromRow, fromCol, toRow, toCol) reads
isPathClearReads(b, fromRow, fromCol, toRow, toCol) ==
    LET rowStep == Step(fromRow, toRow)
        colStep == Step(fromCol, toCol)
    IN  PathCells(b, fromRow + rowStep, fromCol + colStep, toRow, toCol, rowStep, colStep)

\* a path check that never looks at the cells in between
isPathClearAlways(b, fromRow, fromCol, toRow, toCol) == TRUE

isPathClear(b, fromRow, fromCol, toRow, toCol) ==
    LET rowStep == Step(fromRow, toRow)
        colStep == Step(fromCol, toCol)
    IN  PathLoop(b, fromRow + rowStep, fromCol + colStep, toRow, toCol, rowStep, colStep)

\* a pawn rule without the two-square advance from the starting row
isValidPawnMoveOneStep(b, fromRow, fromCol, toRow, toCol, piece) ==
    LET direction == IF piece.color = "white" THEN -1 ELSE 1
        targetPiece == b[toRow][toCol]
    IN  IF fromCol = toCol
        THEN toRow = fromRow + direction /\ targetPiece = Null
        ELSE /\ Abs(fromCol - toCol) = 1
             /\ toRow = fromRow + direction
             /\ targetPiece # Null
             /\ targetPiece.color # piece.color

\* a pawn rule whose two-square advance does not look at the cell it passes
isValidPawnMoveJump(b, fromRow, fromCol, toRow, toCol, piece) ==
    LET direction == IF piece.color = "white" THEN -1 ELSE 1
        startRow == IF piece.color = "white" THEN 6 ELSE 1
        targetPiece == b[toRow][toCol]
    IN  IF fromCol = toCol
        THEN \/ toRow = fromRow + direction /\ targetPiece = Null
             \/ /\ fromRow = startRow
                /\ toRow = fromRow + 2 * direction
                /\ targetPiece = Null
        ELSE /\ Abs(fromCol - toCol) = 1
             /\ toRow = fromRow + direction
             /\ targetPiece # Null
             /\ targetPiece.color # piece.color

\* a pawn rule whose single step does not ask for an empty destination
isValidPawnMoveAnyTarget(b, fromRow, fromCol, toRow, toCol, piece) ==
    LET direction == IF piece.color = "white" THEN -1 ELSE 1
        startRow == IF piece.color = "white" THEN 6 ELSE 1
        targetPiece == b[toRow][toCol]
    IN  IF fromCol = toCol
        THEN \/ toRow = fromRow + direction
             \/ /\ fromRow = startRow
                /\ toRow = fromRow + 2 * direction
                /\ targetPiece = Null
                /\ b[fromRow + direction][fromCol] = Null
        ELSE /\ Abs(fromCol - toCol) = 1
             /\ toRow = fromRow + direction
             /\ targetPiece # Null
             /\ targetPiece.color # piece.color

isValidPawnMove(b, fromRow, fromCol, toRow, toCol, piece) ==
    LET direction == IF piece.color = "white" THEN -1 ELSE 1
        startRow == IF piece.color = "white" THEN 6 ELSE 1
        targetPiece == b[toRow][toCol]
    IN  IF fromCol = toCol
        THEN \/ toRow = fromRow + direction /\ targetPiece = Null
             \/ /\ fromRow = startRow
                /\ toRow = fromRow + 2 * direction
                /\ targetPiece = Null
                /\ b[fromRow + direction][fromCol] = Null
        ELSE /\ Abs(fromCol - toCol) = 1
             /\ toRow = fromRow + direction
             /\ targetPiece # Null
             /\ targetPiece.color # piece.color

isValidRookMove(b, fromRow, fromCol, toRow, toCol) ==
    IF fromRow # toRow /\ fromCol # toCol THEN FALSE
    ELSE isPathClear(b, fromRow, fromCol, toRow, toCol)

isValidBishopMove(b, fromRow, fromCol, toRow, toCol) ==
    IF Abs(fromRow - toRow) # Abs(fromCol - toCol) THEN FALSE
    ELSE isPathClear(b, fromRow, fromCol, toRow, toCol)

\* a knight rule that knows one orientation of the L only
isValidKnightMoveTall(fromRow, fromCol, toRow, toCol) ==
    Abs(fromRow - toRow) = 2 /\ Abs(fromCol - toCol) = 1

isValidKnightMove(fromRow, fromCol, toRow, toCol) ==
    LET rowDiff == Abs(fromRow - toRow)
        colDiff == Abs(fromCol - toCol)
    IN  (rowDiff = 2 /\ colDiff = 1) \/ (rowDiff = 1 /\ colDiff = 2)

\* a queen that moves like a rook only
isValidQueenMoveRookOnly(b, fromRow, fromCol, toRow, toCol) ==
    isValidRookMove(b, fromRow, fromCol, toRow, toCol)

isValidQueenMove(b, fromRow, fromCol, toRow, toCol) ==
    \/ isValidRookMove(b, fromRow, fromCol, toRow, toCol)
    \/ isValidBishopMove(b, fromRow, fromCol, toRow, toCol)

\* a king that may also go two columns along its row
isValidKingMoveCastle(fromRow, fromCol, toRow, toCol) ==
    LET rowDiff == Abs(fromRow - toRow)
        colDiff == Abs(fromCol - toCol)
    IN  \/ rowDiff <= 1 /\ colDiff <= 1 /\ (rowDiff > 0 \/ colDiff > 0)
        \/ rowDiff = 0 /\ colDiff = 2

isValidKingMove(fromRow, fromCol, toRow, toCol) ==
    LET rowDiff == Abs(fromRow - toRow)
        colDiff == Abs(fromCol - toCol)
    IN  rowDiff <= 1 /\ colDiff <= 1 /\ (rowDiff > 0 \/ colDiff > 0)

\* a legality check without the test for a piece of the own color on the
\* destination
isValidMoveOwnCapture(b, player, fromRow, fromCol, toRow, toCol) ==
    IF toRow < 0 \/ toRow > 7 \/ toCol < 0 \/ toCol > 7 THEN FALSE
    ELSE IF fromRow = toRow /\ fromCol = toCol THEN FALSE
    ELSE LET piece == b[fromRow][fromCol] IN
         IF piece = Null THEN FALSE
         ELSE IF piece.color # player THEN FALSE
         ELSE CASE piece.type = "rook"   -> isValidRookMove(b, fromRow, fromCol, toRow, toCol)
                [] piece.type = "bishop" -> isValidBishopMove(b, fromRow, fromCol, toRow, toCol)
                [] piece.type = "knight" -> isValidKnightMove(fromRow, fromCol, toRow, toCol)
                [] piece.type = "queen"  -> isValidQueenMove(b, fromRow, fromCol, toRow, toCol)
                [] piece.type = "king"   -> isValidKingMove(fromRow, fromCol, toRow, toCol)
                [] OTHER -> isValidPawnMove(b, fromRow, fromCol, toRow, toCol, piece)

\* b and player are the board and currentPlayer of the render the caller closes over
isValidMove(b, player, fromRow, fromCol, toRow, toCol) ==
    IF toRow < 0 \/ toRow > 7 \/ toCol < 0 \/ toCol > 7 THEN FALSE
    ELSE IF fromRow = toRow /\ fromCol = toCol THEN FALSE
    ELSE LET piece == b[fromRow][fromCol] IN
         IF piece = Null THEN FALSE
         ELSE IF piece.color # player THEN FALSE
         ELSE LET targetPiece == b[toRow][toCol] IN
              IF targetPiece # Null /\ targetPiece.color = piece.color THEN FALSE
              ELSE CASE piece.type = "pawn"   -> isValidPawnMove(b, fromRow, fromCol, toRow, toCol, piece)
                     [] piece.type = "rook"   -> isValidRookMove(b, fromRow, fromCol, toRow, toCol)
                     [] piece.type = "bishop" -> isValidBishopMove(b, fromRow, fromCol, toRow, toCol)
                     [] piece.type = "knight" -> isValidKnightMove(fromRow, fromCol, toRow, toCol)
                     [] piece.type = "queen"  -> isValidQueenMove(b, fromRow, fromCol, toRow, toCol)
                     [] piece.type = "king"   -> isValidKingMove(fromRow, fromCol, toRow, toCol)
                     [] OTHER -> FALSE

\* isValidMove(fromRow, fromCol, toRow, toCol) gets as far as a call of
\* isPathClear: the general checks pass and the rook, bishop or queen rule
\* does not return before the call
reachesIsPathClear(b, player, fromRow, fromCol, toRow, toCol) ==
    IF toRow < 0 \/ toRow > 7 \/ toCol < 0 \/ toCol > 7 THEN FALSE
    ELSE IF fromRow = toRow /\ fromCol = toCol THEN FALSE
    ELSE LET piece == b[fromRow][fromCol] IN
         IF piece = Null THEN FALSE
         ELSE IF piece.color # player THEN FALSE
         ELSE LET targetPiece == b[toRow][toCol] IN
              IF targetPiece # Null /\ targetPiece.color = piece.color THEN FALSE
              ELSE CASE piece.type = "rook"   -> ~(fromRow # toRow /\ fromCol # toCol)
                     [] piece.type = "bishop" -> ~(Abs(fromRow - toRow) # Abs(fromCol - toCol))
                     [] piece.type = "queen"  -> \/ ~(fromRow # toRow /\ fromCol # toCol)
                                                \/ ~(Abs(fromRow - toRow) # Abs(fromCol - toCol))
                     [] OTHER -> FALSE

(***************************************************************************)
(* Move generator                                                          *)
(***************************************************************************)
RECURSIVE ValidMovesFrom(_, _, _, _, _)
\* the two nested loops of calculateValidMoves, from cell k = 8 * toRow + toCol
ValidMovesFrom(b, player, row, col, k) ==
    IF k > 63 THEN <<>>
    ELSE LET toRow == k \div 8
             toCol == k % 8
             rest == ValidMovesFrom(b, player, row, col, k + 1)
         IN  IF isValidMove(b, player, row, col, toRow, toCol)
             THEN <<Pos(toRow, toCol)>> \o rest
             ELSE rest

calculateValidMoves(b, player, row, col) == ValidMovesFrom(b, player, row, col, 0)

(***************************************************************************)
(* Text of a voice transcript                                              *)
(***************************************************************************)
upperCase == <<"A", "B", "C", "D", "E", "F", "G", "H", "I", "J", "K", "L", "M",
               "N", "O", "P", "Q", "R", "S", "T", "U", "V", "W", "X", "Y", "Z">>
lowerCase == <<"a", "b", "c", "d", "e", "f", "g", "h", "i", "j", "k", "l", "m",
               "n", "o", "p", "q", "r", "s", "t", "u", "v", "w", "x", "y", "z">>

\* String.prototype.toLowerCase
toLowerCase(str) ==
    [i \in 1..Len(str) |->
        IF IndexOf(upperCase, str[i]) = -1 THEN str[i]
        ELSE lowerCase[IndexOf(upperCase, str[i]) + 1]]

\* the characters "." of a regular expression does not match
LineTerminators == {"\n", "\r"}

\* the characters String.prototype.trim removes
WhiteSpace == {" ", "\t", "\f"} \cup LineTerminators

\* a trim that removes the white space inside the string as well
trimAll(str) ==
    LET kept == {i \in 1..Len(str) : str[i] \notin WhiteSpace}
        F[n \in 0..Len(str)] ==
            IF n = 0 THEN <<>>
            ELSE IF n \in kept THEN Append(F[n - 1], str[n]) ELSE F[n - 1]
    IN  F[Len(str)]

\* String.prototype.trim
trim(str) ==
    LET kept == {i \in 1..Len(str) : str[i] \notin WhiteSpace}
    IN  IF kept = {} THEN <<>>
        ELSE LET first == CHOOSE i \in kept : \A j \in kept : i <= j
                 last == CHOOSE i \in kept : \A j \in kept : j <= i
             IN  SubSeq(str, first, last)

\* [a-h][1-8] matches str at position i (1-based)
SquareAt(str, i) ==
    /\ i >= 1
    /\ i + 1 <= Len(str)
    /\ IndexOf(files, str[i]) # -1
    /\ IndexOf(ranks, str[i + 1]) # -1

\* /^[a-h][1-8]$/.test(str)
IsBareSquare(str) == Len(str) = 2 /\ SquareAt(str, 1)

\* ([a-h][1-8]).*?([a-h][1-8]) matches with group 1 at i and group 2 at j
PairAt(str, i, j) ==
    /\ SquareAt(str, i)
    /\ j >= i + 2
    /\ SquareAt(str, j)
    /\ \A k \in (i + 2)..(j - 1) : str[k] \notin LineTerminators

\* str.match(/([a-h][1-8]).*?([a-h][1-8])/): the leftmost start, then the
\* shortest gap; <<group 1, group 2>>, or Null when there is no match
MatchFromTo(str) ==
    LET starts == {i \in 1..Len(str) : \E j \in 1..Len(str) : PairAt(str, i, j)}
    IN  IF starts = {} THEN Null
        ELSE LET i == CHOOSE x \in starts : \A y \in starts : x <= y
                 ends == {j \in 1..Len(str) : PairAt(str, i, j)}
                 j == CHOOSE x \in ends : \A y \in ends : x <= y
             IN  <<SubSeq(str, i, i + 1), SubSeq(str, j, j + 1)>>

\* String.prototype.split("-") of a string with exactly one "-"
SplitDash(str) ==
    LET d == IndexOf(str, "-") + 1
    IN  <<SubSeq(str, 1, d - 1), SubSeq(str, d + 1, Len(str))>>

(***************************************************************************)
(* Voice command resolver                                                  *)
(***************************************************************************)
RECURSIVE ScanCols(_, _, _, _, _)
\* the inner loop of the bare-destination search: fromSquare after the row
ScanCols(b, player, toSquare, row, col) ==
    IF col > 7 THEN Null
    ELSE LET piece == b[row][col]
             toPos == parseSquareNotation(toSquare)
         IN  IF /\ piece # Null
                /\ piece.color = player
                /\ toPos # Null
                /\ isValidMove(b, player, row, col, toPos.row, toPos.col)
             THEN getSquareNotation(row, col)
             ELSE ScanCols(b, player, toSquare, row, col + 1)

RECURSIVE ScanRowsLast(_, _, _, _)
\* the outer loop without its break: a later row overwrites fromSquare
ScanRowsLast(b, player, toSquare, row) ==
    IF row > 7 THEN Null
    ELSE LET later == ScanRowsLast(b, player, toSquare, row + 1)
         IN  IF later # Null THEN later ELSE ScanCols(b, player, toSquare, row, 0)

RECURSIVE ScanRows(_, _, _, _)
\* the outer loop of the bare-destination search, with its break
ScanRows(b, player, toSquare, row) ==
    IF row > 7 THEN Null
    ELSE LET fromSquare == ScanCols(b, player, toSquare, row, 0)
         IN  IF fromSquare # Null THEN fromSquare
             ELSE ScanRows(b, player, toSquare, row + 1)

\* fromSquare and toSquare of processVoiceCommand before the final check
VoiceSquares(b, player, command) ==
    LET trimmedCommand == trim(toLowerCase(command))
    IN  IF IsBareSquare(trimmedCommand)
        THEN <<ScanRows(b, player, trimmedCommand, 0), trimmedCommand>>
        ELSE LET matches == MatchFromTo(trimmedCommand)
             IN  IF matches # Null THEN matches ELSE <<Null, Null>>

\* a resolver that executes the pair it found without asking isValidMove
VoiceMoveUnchecked(b, player, command) ==
    LET sq == VoiceSquares(b, player, command)
    IN  IF sq[1] # Null /\ sq[2] # Null
        THEN LET fromPos == parseSquareNotation(sq[1])
                 toPos == parseSquareNotation(sq[2])
             IN  IF fromPos # Null /\ toPos # Null
                 THEN [from |-> fromPos, to |-> toPos]
                 ELSE Null
        ELSE Null

\* the move processVoiceCommand executes: [from, to] of positions, or Null
VoiceMove(b, player, command) ==
    LET sq == VoiceSquares(b, player, command)
    IN  IF sq[1] # Null /\ sq[2] # Null
        THEN LET fromPos == parseSquareNotation(sq[1])
                 toPos == parseSquareNotation(sq[2])
             IN  IF /\ fromPos # Null
                    /\ toPos # Null
                    /\ isValidMove(b, player, fromPos.row, fromPos.col, toPos.row, toPos.col)
                 THEN [from |-> fromPos, to |-> toPos]
                 ELSE Null
        ELSE Null

(***************************************************************************)
(* Inputs                                                                  *)
(***************************************************************************)
\* the squares the user clicks
ClickNames == {<<"e", "2">>, <<"e", "4">>, <<"d", "5">>}

ClickSquares == {parseSquareNotation(n) : n \in ClickNames}

\* the transcripts VoiceControls delivers; it lower-cases and trims them
Transcripts ==
    { <<"e", "4">>,
      <<"d", "5">>,
      <<"f", "3">>,
      <<"d", "7", "\n", "e", "2", " ", "e", "4">>,
      <<"e", " ", "4">>,
      <<"h", "e", "l", "l", "o", " ", "t", "h", "e", "r", "e">> }

GameModes == {"player", "engine"}

\* makeEngineMove: engineMoves
engineMoves ==
    << <<"e", "7", "-", "e", "5">>,
       <<"b", "8", "-", "c", "6">>,
       <<"g", "8", "-", "f", "6">>,
       <<"f", "8", "-", "c", "5">> >>

Opposite(player) == IF player = "white" THEN "black" ELSE "white"

(***************************************************************************)
(* ChessGame                                                               *)
(***************************************************************************)
\* a handler that stores the new record in place of the history
handleMoveReplace(move) ==
    /\ moveHistory' = <<move>>
    /\ currentPlayer' = Opposite(currentPlayer)
    /\ timers' = IF gameMode = "engine" /\ currentPlayer = "white" THEN timers + 1 ELSE timers

\* ChessGame.handleMove, the onMove callback of the board
handleMove(move) ==
    /\ moveHistory' = Append(moveHistory, move)
    /\ currentPlayer' = Opposite(currentPlayer)
    /\ timers' = IF gameMode = "engine" /\ currentPlayer = "white" THEN timers + 1 ELSE timers

\* the timer callback: ChessGame.makeEngineMove
MakeEngineMove ==
    /\ pendingEffects = {}
    /\ timers > 0
    /\ \E k \in 1..Len(engineMoves) :
         LET randomMove == engineMoves[k]
             engineMove == [from |-> SplitDash(randomMove)[1],
                            to |-> SplitDash(randomMove)[2],
                            piece |-> "pawn",
                            notation |-> randomMove]
         IN  moveHistory' = Append(moveHistory, engineMove)
    /\ currentPlayer' = "white"
    /\ timers' = timers - 1
    /\ UNCHANGED <<board, selectedSquare, validMoves, gameStarted, gameMode,
                   lastVoiceCommand, pendingEffects, executed, voiceState>>

\* ChessGame.startNewGame; the effects that depend on gameStarted run when it changed
StartNewGame ==
    /\ pendingEffects = {}
    /\ moveHistory' = <<>>
    /\ currentPlayer' = "white"
    /\ gameStarted' = TRUE
    /\ pendingEffects' = IF gameStarted THEN {} ELSE {"voice", "reset"}
    /\ UNCHANGED <<board, selectedSquare, validMoves, gameMode, lastVoiceCommand,
                   timers, executed, voiceState>>

\* GameModeSelector: onGameModeChange = setGameMode
SetGameMode ==
    /\ pendingEffects = {}
    /\ \E mode \in GameModes : gameMode' = mode
    /\ UNCHANGED <<board, selectedSquare, validMoves, moveHistory, currentPlayer,
                   gameStarted, lastVoiceCommand, timers, pendingEffects,
                   executed, voiceState>>

\* ChessGame.handleVoiceMove: a transcript arrives; the voice effect runs when
\* lastVoiceCommand changed
HandleVoiceMove ==
    /\ pendingEffects = {}
    /\ \E move \in Transcripts :
         /\ lastVoiceCommand' = move
         /\ pendingEffects' = IF move # lastVoiceCommand THEN {"voice"} ELSE {}
    /\ voiceState' = "fresh"
    /\ UNCHANGED <<board, selectedSquare, validMoves, moveHistory, currentPlayer,
                   gameStarted, gameMode, timers, executed>>

(***************************************************************************)
(* ChessBoard                                                              *)
(***************************************************************************)
\* a relocation that leaves the piece on its origin square as well
MovedBoardKeepsOrigin(b, fromRow, fromCol, toRow, toCol) ==
    [b EXCEPT ![toRow][toCol] = b[fromRow][fromCol]]

\* the board executeMove passes to setBoard
MovedBoard(b, fromRow, fromCol, toRow, toCol) ==
    [b EXCEPT ![toRow][toCol] = b[fromRow][fromCol], ![fromRow][fromCol] = Null]

\* the move record executeMove passes to onMove
MoveRecord(b, fromRow, fromCol, toRow, toCol) ==
    LET piece == b[fromRow][fromCol]
    IN  [from |-> getSquareNotation(fromRow, fromCol),
         to |-> getSquareNotation(toRow, toCol),
         piece |-> IF piece = Null THEN "unknown" ELSE piece.type,
         notation |-> getSquareNotation(fromRow, fromCol) \o <<"-">> \o getSquareNotation(toRow, toCol)]

\* ChessBoard.executeMove; the new board schedules the voice effect.
\* MaxMoves bounds the number of moves that are explored.
executeMove(fromRow, fromCol, toRow, toCol) ==
    /\ executed < MaxMoves
    /\ board' = MovedBoard(board, fromRow, fromCol, toRow, toCol)
    /\ handleMove(MoveRecord(board, fromRow, fromCol, toRow, toCol))
    /\ selectedSquare' = Null
    /\ validMoves' = <<>>
    /\ pendingEffects' = pendingEffects \cup {"voice"}
    /\ executed' = executed + 1

\* setSelectedSquare({row, col}); setValidMoves(calculateValidMoves(row, col))
Select(row, col) ==
    /\ selectedSquare' = Pos(row, col)
    /\ validMoves' = calculateValidMoves(board, currentPlayer, row, col)

\* setSelectedSquare(null); setValidMoves([])
Deselect ==
    /\ selectedSquare' = Null
    /\ validMoves' = <<>>

\* a click handler that clears the selection on every illegal target, own
\* piece or not
SquareClickNoReselect(row, col) ==
    LET keep == UNCHANGED <<board, moveHistory, currentPlayer, timers,
                            pendingEffects, executed>>
    IN  IF ~gameStarted THEN keep /\ UNCHANGED <<selectedSquare, validMoves>>
        ELSE IF selectedSquare # Null
        THEN LET fromRow == selectedSquare.row
                 fromCol == selectedSquare.col
             IN  IF fromRow = row /\ fromCol = col THEN Deselect /\ keep
                 ELSE IF isValidMove(board, currentPlayer, fromRow, fromCol, row, col)
                 THEN executeMove(fromRow, fromCol, row, col)
                 ELSE Deselect /\ keep
        ELSE LET piece == board[row][col]
             IN  IF piece # Null /\ piece.color = currentPlayer
                 THEN Select(row, col) /\ keep
                 ELSE keep /\ UNCHANGED <<selectedSquare, validMoves>>

\* ChessBoard.handleSquareClick(row, col)
SquareClick(row, col) ==
    LET keep == UNCHANGED <<board, moveHistory, currentPlayer, timers,
                            pendingEffects, executed>>
    IN  IF ~gameStarted THEN keep /\ UNCHANGED <<selectedSquare, validMoves>>
        ELSE IF selectedSquare # Null
        THEN LET fromRow == selectedSquare.row
                 fromCol == selectedSquare.col
             IN  IF fromRow = row /\ fromCol = col THEN Deselect /\ keep
                 ELSE IF isValidMove(board, currentPlayer, fromRow, fromCol, row, col)
                 THEN executeMove(fromRow, fromCol, row, col)
                 ELSE LET piece == board[row][col]
                      IN  IF piece # Null /\ piece.color = currentPlayer
                          THEN Select(row, col) /\ keep
                          ELSE Deselect /\ keep
        ELSE LET piece == board[row][col]
             IN  IF piece # Null /\ piece.color = currentPlayer
                 THEN Select(row, col) /\ keep
                 ELSE keep /\ UNCHANGED <<selectedSquare, validMoves>>

\* a click on one of ClickSquares
HandleSquareClick ==
    /\ pendingEffects = {}
    /\ \E sq \in ClickSquares : SquareClick(sq.row, sq.col)
    /\ UNCHANGED <<gameStarted, gameMode, lastVoiceCommand, voiceState>>

\* a voice effect that does not ask whether the game has started
VoiceEffectUnguarded ==
    /\ "voice" \in pendingEffects
    /\ IF lastVoiceCommand # <<>>
       THEN LET move == VoiceMove(board, currentPlayer, lastVoiceCommand)
            IN  IF move # Null
                THEN /\ executeMove(move.from.row, move.from.col, move.to.row, move.to.col)
                     /\ voiceState' = "moved"
                ELSE /\ pendingEffects' = pendingEffects \ {"voice"}
                     /\ voiceState' = IF voiceState = "fresh" THEN "dropped" ELSE voiceState
                     /\ UNCHANGED <<board, selectedSquare, validMoves, moveHistory,
                                    currentPlayer, timers, executed>>
       ELSE /\ pendingEffects' = pendingEffects \ {"voice"}
            /\ UNCHANGED <<board, selectedSquare, validMoves, moveHistory, currentPlayer,
                           timers, executed, voiceState>>
    /\ UNCHANGED <<gameStarted, gameMode, lastVoiceCommand>>

\* useEffect(..., [lastVoiceCommand, gameStarted, board]) with processVoiceCommand
VoiceEffect ==
    /\ "voice" \in pendingEffects
    /\ IF lastVoiceCommand # <<>> /\ gameStarted
       THEN LET move == VoiceMove(board, currentPlayer, lastVoiceCommand)
            IN  IF move # Null
                THEN /\ executeMove(move.from.row, move.from.col, move.to.row, move.to.col)
                     /\ voiceState' = "moved"
                ELSE /\ pendingEffects' = pendingEffects \ {"voice"}
                     /\ voiceState' = IF voiceState = "fresh" THEN "dropped" ELSE voiceState
                     /\ UNCHANGED <<board, selectedSquare, validMoves, moveHistory,
                                    currentPlayer, timers, executed>>
       ELSE /\ pendingEffects' = pendingEffects \ {"voice"}
            /\ UNCHANGED <<board, selectedSquare, validMoves, moveHistory, currentPlayer,
                           timers, executed, voiceState>>
    /\ UNCHANGED <<gameStarted, gameMode, lastVoiceCommand>>

\* useEffect(..., [gameStarted]): the board reset; it runs after the voice effect
ResetEffect ==
    /\ "reset" \in pendingEffects
    /\ "voice" \notin pendingEffects
    /\ pendingEffects' = pendingEffects \ {"reset"}
    /\ IF ~gameStarted
       THEN board' = initialBoard /\ Deselect
       ELSE UNCHANGED <<board, selectedSquare, validMoves>>
    /\ UNCHANGED <<moveHistory, currentPlayer, gameStarted, gameMode, lastVoiceCommand,
                   timers, executed, voiceState>>

(***************************************************************************)
(* Specification                                                           *)
(***************************************************************************)
\* the components are mounted and their first effects are scheduled
Init ==
    /\ board = initialBoard
    /\ selectedSquare = Null
    /\ validMoves = <<>>
    /\ moveHistory = <<>>
    /\ currentPlayer = "white"
    /\ gameStarted = FALSE
    /\ gameMode = "player"
    /\ lastVoiceCommand = <<>>
    /\ timers = 0
    /\ pendingEffects = {"voice", "reset"}
    /\ executed = 0
    /\ voiceState = "fresh"

Next ==
    \/ HandleSquareClick
    \/ HandleVoiceMove
    \/ StartNewGame
    \/ SetGameMode
    \/ MakeEngineMove
    \/ VoiceEffect
    \/ ResetEffect

Spec == Init /\ [][Next]_vars

TypeOK ==
    /\ currentPlayer \in {"white", "black"}
    /\ gameStarted \in BOOLEAN
    /\ gameMode \in GameModes
    /\ timers \in 0..MaxMoves
    /\ executed \in 0..MaxMoves
    /\ pendingEffects \subseteq {"voice", "reset"}

(***************************************************************************)
(* The voice resolver on its own: a started game on the initial position   *)
(* receives one transcript, an arbitrary short string or one of the        *)
(* phrases VoiceControls shows as examples, and the voice effect evaluates *)
(* it (again after every move it makes, as in Spec).                       *)
(***************************************************************************)
VoiceChars == {"e", "E", "i", "2", "4", "9", " ", "\n"}

knightF3 == <<"k", "n", "i", "g", "h", "t", " ", "f", "3">>
queenH5 == <<"q", "u", "e", "e", "n", " ", "h", "5">>
e2ToE4 == <<"e", "2", " ", "t", "o", " ", "e", "4">>

VoicePhrases == {knightF3, queenH5, e2ToE4}

\* what the recognizer hears
RawTranscripts ==
    UNION {[1..n -> VoiceChars] : n \in 0..MaxVoiceLen} \cup VoicePhrases

\* what VoiceControls passes on: transcript.toLowerCase().trim()
VoiceInputs == {trim(toLowerCase(raw)) : raw \in RawTranscripts}

InitVoice ==
    /\ board = initialBoard
    /\ selectedSquare = Null
    /\ validMoves = <<>>
    /\ moveHistory = <<>>
    /\ currentPlayer = "white"
    /\ gameStarted = TRUE
    /\ gameMode = "player"
    /\ lastVoiceCommand \in VoiceInputs
    /\ timers = 0
    /\ pendingEffects = {"voice"}
    /\ executed = 0
    /\ voiceState = "fresh"

NextVoice == VoiceEffect

SpecVoice == InitVoice /\ [][NextVoice]_vars

(***************************************************************************)
(* The notation codec on its own.  The input is either a string, held in   *)
(* lastVoiceCommand, or a cell of the grid, held in selectedSquare;        *)
(* ParseNotation applies parseSquareNotation to the string and             *)
(* WriteNotation applies getSquareNotation to the cell.                    *)
(***************************************************************************)
NotationChars == {files[i] : i \in 1..8} \cup {ranks[i] : i \in 1..8} \cup {"i", "9", "0"}

NotationInputs == UNION {[1..n -> NotationChars] : n \in 0..MaxNotationLen}

InitCodec ==
    /\ board = initialBoard
    /\ validMoves = <<>>
    /\ moveHistory = <<>>
    /\ currentPlayer = "white"
    /\ gameStarted = FALSE
    /\ gameMode = "player"
    /\ timers = 0
    /\ pendingEffects = {}
    /\ executed = 0
    /\ voiceState = "fresh"
    /\ \/ lastVoiceCommand \in NotationInputs /\ selectedSquare = Null
       \/ lastVoiceCommand = <<>> /\ selectedSquare \in {Pos(r, c) : r \in Rows, c \in Cols}

ParseNotation ==
    /\ selectedSquare' = parseSquareNotation(lastVoiceCommand)
    /\ UNCHANGED <<board, validMoves, moveHistory, currentPlayer, gameStarted, gameMode,
                   lastVoiceCommand, timers, pendingEffects, executed, voiceState>>

WriteNotation ==
    /\ selectedSquare # Null
    /\ selectedSquare.row \in Rows
    /\ selectedSquare.col \in Cols
    /\ lastVoiceCommand' = getSquareNotation(selectedSquare.row, selectedSquare.col)
    /\ UNCHANGED <<board, selectedSquare, validMoves, moveHistory, currentPlayer,
                   gameStarted, gameMode, timers, pendingEffects, executed, voiceState>>

NextCodec == ParseNotation \/ WriteNotation

SpecCodec == InitCodec /\ [][NextCodec]_vars

(***************************************************************************)
(* The legality engine on its own.  The inputs of isValidMove are the      *)
(* board and the turn it closes over and the origin cell;                  *)
(* CalculateValidMoves applies calculateValidMoves, that is isValidMove    *)
(* for each of the 64 destinations, to a cell of a board of LegalBoards.   *)
(***************************************************************************)
\* the board that holds the given pieces, a set of <<square name, piece>>
BoardOf(placements) ==
    [r \in Rows |-> [c \in Cols |->
        IF \E pl \in placements : pl[1] = getSquareNotation(r, c)
        THEN (CHOOSE pl \in placements : pl[1] = getSquareNotation(r, c))[2]
        ELSE Null]]

\* a lone knight on d4
knightBoard(color) == BoardOf({<<(<<"d", "4">>), Piece("knight", color)>>})

\* pawns on their starting rows with the two cells ahead free (a), the next
\* cell taken by the other color (b) or the own color (d), the second cell
\* taken by the other color (c) or the own color (e), and pawns that have
\* left their starting rows (f)
pawnBoard ==
    BoardOf({ <<(<<"a", "2">>), Piece("pawn", "white")>>, <<(<<"a", "7">>), Piece("pawn", "black")>>,
              <<(<<"b", "2">>), Piece("pawn", "white")>>, <<(<<"b", "3">>), Piece("knight", "black")>>,
              <<(<<"c", "2">>), Piece("pawn", "white")>>, <<(<<"c", "4">>), Piece("knight", "black")>>,
              <<(<<"d", "2">>), Piece("pawn", "white")>>, <<(<<"d", "3">>), Piece("knight", "white")>>,
              <<(<<"e", "2">>), Piece("pawn", "white")>>, <<(<<"e", "4">>), Piece("knight", "white")>>,
              <<(<<"f", "3">>), Piece("pawn", "white")>>,
              <<(<<"b", "7">>), Piece("pawn", "black")>>, <<(<<"b", "6">>), Piece("bishop", "white")>>,
              <<(<<"c", "7">>), Piece("pawn", "black")>>, <<(<<"c", "5">>), Piece("bishop", "white")>>,
              <<(<<"d", "7">>), Piece("pawn", "black")>>, <<(<<"d", "6">>), Piece("bishop", "black")>>,
              <<(<<"e", "7">>), Piece("pawn", "black")>>, <<(<<"e", "5">>), Piece("bishop", "black")>>,
              <<(<<"f", "6">>), Piece("pawn", "black")>> })

\* kings on their home cells, the white one with both rooks and the cells
\* towards them free except for the bishop on c1; a white queen on d4 with
\* an own pawn (d2) and pieces of the other color (a4, d6, g7) on its
\* lines; a black rook on f8 that attacks f1 and f2 next to the white king
pieceBoard ==
    BoardOf({ <<(<<"e", "1">>), Piece("king", "white")>>, <<(<<"a", "1">>), Piece("rook", "white")>>,
              <<(<<"h", "1">>), Piece("rook", "white")>>, <<(<<"c", "1">>), Piece("bishop", "white")>>,
              <<(<<"b", "2">>), Piece("pawn", "white")>>, <<(<<"d", "2">>), Piece("pawn", "white")>>,
              <<(<<"d", "4">>), Piece("queen", "white")>>,
              <<(<<"e", "8">>), Piece("king", "black")>>, <<(<<"f", "8">>), Piece("rook", "black")>>,
              <<(<<"g", "7">>), Piece("bishop", "black")>>, <<(<<"d", "6">>), Piece("knight", "black")>>,
              <<(<<"a", "4">>), Piece("pawn", "black")>> })

LegalBoards == {initialBoard, knightBoard("white"), knightBoard("black"), pawnBoard, pieceBoard}

InitLegal ==
    /\ board \in LegalBoards
    /\ selectedSquare = Null
    /\ validMoves = <<>>
    /\ moveHistory = <<>>
    /\ currentPlayer \in {"white", "black"}
    /\ gameStarted = TRUE
    /\ gameMode = "player"
    /\ lastVoiceCommand = <<>>
    /\ timers = 0
    /\ pendingEffects = {}
    /\ executed = 0
    /\ voiceState = "fresh"

CalculateValidMoves ==
    /\ \E row \in Rows, col \in Cols : Select(row, col)
    /\ UNCHANGED <<board, moveHistory, currentPlayer, gameStarted, gameMode,
                   lastVoiceCommand, timers, pendingEffects, executed, voiceState>>

NextLegal == CalculateValidMoves

SpecLegal == InitLegal /\ [][NextLegal]_vars

(***************************************************************************)
(* The click handler on its own: a started game on the initial position    *)
(* without a transcript, in which the user clicks the cells of the two     *)
(* centre files; the voice effect runs after every move and finds no       *)
(* transcript.                                                             *)
(***************************************************************************)
CentreSquares == {Pos(r, c) : r \in Rows, c \in {3, 4}}

InitClick ==
    /\ board = initialBoard
    /\ selectedSquare = Null
    /\ validMoves = <<>>
    /\ moveHistory = <<>>
    /\ currentPlayer = "white"
    /\ gameStarted = TRUE
    /\ gameMode = "player"
    /\ lastVoiceCommand = <<>>
    /\ timers = 0
    /\ pendingEffects = {}
    /\ executed = 0
    /\ voiceState = "fresh"

\* a click on a cell of the centre files
CentreClick ==
    /\ pendingEffects = {}
    /\ \E sq \in CentreSquares : SquareClick(sq.row, sq.col)
    /\ UNCHANGED <<gameStarted, gameMode, lastVoiceCommand, voiceState>>

NextClick == CentreClick \/ VoiceEffect

SpecClick == InitClick /\ [][NextClick]_vars

(***************************************************************************)
(* Vocabulary of the properties                                            *)
(***************************************************************************)
FileChars == {"a", "b", "c", "d", "e", "f", "g", "h"}
RankChars == {"1", "2", "3", "4", "5", "6", "7", "8"}

\* the positions of str where a square name (a file then a rank) starts
SquareNamesIn(str) ==
    {i \in 1..(Len(str) - 1) : str[i] \in FileChars /\ str[i + 1] \in RankChars}

Least(S) == CHOOSE x \in S : \A y \in S : x <= y

\* sub occurs in str as a contiguous substring
Contains(str, sub) ==
    \E i \in 1..(Len(str) - Len(sub) + 1) : SubSeq(str, i, i + Len(sub) - 1) = sub

\* the last record of the history after the step
NewRecord == moveHistory'[Len(moveHistory')]

\* the step appends exactly one record to the history
AppendsOne == Len(moveHistory') = Len(moveHistory) + 1
              /\ SubSeq(moveHistory', 1, Len(moveHistory)) = moveHistory

\* the step relocates the piece on from to to and changes no other square
Relocates(from, to) ==
    /\ board[from.row][from.col] # Null
    /\ board'[from.row][from.col] = Null
    /\ board'[to.row][to.col] = board[from.row][from.col]
    /\ \A r \in Rows, c \in Cols :
         (Pos(r, c) # from /\ Pos(r, c) # to) => board'[r][c] = board[r][c]

\* the step is one legal execution of the move executor on (from, to)
LegalExecution(from, to) ==
    /\ isValidMove(board, currentPlayer, from.row, from.col, to.row, to.col)
    /\ Relocates(from, to)
    /\ AppendsOne
    /\ NewRecord.from = getSquareNotation(from.row, from.col)
    /\ NewRecord.to = getSquareNotation(to.row, to.col)

\* the step leaves the game position alone
NoMove == UNCHANGED <<board, currentPlayer, moveHistory>>

\* the 64 cells of the grid
Squares == {Pos(r, c) : r \in Rows, c \in Cols}

\* the cells from which a piece of the given kind of the side to move may
\* legally move to the target
KindMovers(kind, target) ==
    {p \in Squares :
        /\ board[p.row][p.col] # Null
        /\ board[p.row][p.col].type = kind
        /\ isValidMove(board, currentPlayer, p.row, p.col, target.row, target.col)}

e2 == <<"e", "2">>
e4 == <<"e", "4">>
f3 == <<"f", "3">>
helloThere == <<"h", "e", "l", "l", "o", " ", "t", "h", "e", "r", "e">>

(***************************************************************************)
(* C1..C10                                                                 *)
(***************************************************************************)

\* C1: every record appended to the history comes from one execution of the
\* move executor on a pair (from, to) that isValidMove accepted on the board
\* and turn of the state before the append, whatever the input source.
C1_RecordsFromLegalExecutions ==
    [][AppendsOne =>
         LET from == parseSquareNotation(NewRecord.from)
             to == parseSquareNotation(NewRecord.to)
         IN  /\ from \in {Pos(r, c) : r \in Rows, c \in Cols}
             /\ to \in {Pos(r, c) : r \in Rows, c \in Cols}
             /\ LegalExecution(from, to)]_vars

\* C2: an accepted move flips the turn, appends exactly one record, empties
\* from, puts the piece that was on from on to and changes no other square.
C2_AcceptedMoveEffect ==
    [][executed' # executed =>
         /\ currentPlayer' \in {"white", "black"} \ {currentPlayer}
         /\ AppendsOne
         /\ Relocates(parseSquareNotation(NewRecord.from), parseSquareNotation(NewRecord.to))]_vars

\* a capture by click or voice has been accepted: the white pawn took on d5
C2_Witness ==
    /\ executed = 3
    /\ board[3][3] = Piece("pawn", "white")
    /\ board[4][4] = Null
    /\ currentPlayer = "black"
    /\ Len(moveHistory) = 3

\* C3: in a started game white is to move exactly when the number of records
\* appended since the last game start is even.
C3_TurnAlternates ==
    gameStarted => (currentPlayer = "white" <=> Len(moveHistory) % 2 = 0)

\* C4: a transcript that was dropped when it arrived never makes a move later.
C4_DroppedNeverMoves ==
    [][voiceState = "dropped" => voiceState' # "moved"]_vars

\* C5: one transcript makes at most one accepted move.
C5_OneMovePerTranscript ==
    [][(VoiceEffect /\ voiceState = "moved") => executed' = executed]_vars

\* C6: starting a new game yields the initial position, white to move and an
\* empty history.
C6_NewGameIsInitial ==
    [][StartNewGame =>
         /\ board' = initialBoard
         /\ currentPlayer' = "white"
         /\ moveHistory' = <<>>]_vars

\* C7: on the initial position with white to move the transcript "e4" moves
\* e2 to e4 and appends exactly one record, whose notation contains e2 and e4;
\* applied again to the resulting position it makes no further move.
C7_E4FromInitial ==
    [][(VoiceEffect /\ gameStarted /\ board = initialBoard /\ currentPlayer = "white"
          /\ lastVoiceCommand = e4) =>
         /\ AppendsOne
         /\ NewRecord.from = e2
         /\ NewRecord.to = e4
         /\ Contains(NewRecord.notation, e2)
         /\ Contains(NewRecord.notation, e4)
         /\ Relocates(Pos(6, 4), Pos(4, 4))
         /\ VoiceMove(board', currentPlayer', lastVoiceCommand') = Null]_vars

\* "e4" was spoken on the initial position and has made its one move
C7_Witness ==
    /\ lastVoiceCommand = e4
    /\ voiceState = "moved"
    /\ pendingEffects = {}
    /\ moveHistory = <<[from |-> e2, to |-> e4, piece |-> "pawn",
                        notation |-> <<"e", "2", "-", "e", "4">>]>>
    /\ board = [initialBoard EXCEPT ![6][4] = Null, ![4][4] = Piece("pawn", "white")]

\* C8: a transcript without a square name makes no move: neither its arrival
\* nor any evaluation of it changes board, turn or history.
C8_NoSquareNoMove ==
    [][((HandleVoiceMove \/ VoiceEffect) /\ SquareNamesIn(lastVoiceCommand') = {}) => NoMove]_vars

\* "hello there" arrived in a started game, was evaluated and was dropped
C8_Witness ==
    /\ gameStarted
    /\ lastVoiceCommand = helloThere
    /\ voiceState = "dropped"
    /\ pendingEffects = {}

\* C9: a transcript that is exactly one square name moves the first piece of
\* the side to move, in row-major order, that isValidMove lets reach the
\* target; without such a piece it makes no move.
C9_BareDestinationFirstMatch ==
    [][(VoiceEffect /\ gameStarted /\ Len(lastVoiceCommand) = 2
          /\ SquareNamesIn(lastVoiceCommand) = {1}) =>
         LET target == parseSquareNotation(lastVoiceCommand)
             movers == {p \in {Pos(r, c) : r \in Rows, c \in Cols} :
                          /\ board[p.row][p.col] # Null
                          /\ board[p.row][p.col].color = currentPlayer
                          /\ isValidMove(board, currentPlayer, p.row, p.col, target.row, target.col)}
         IN  IF movers = {} THEN NoMove
             ELSE LET first == CHOOSE p \in movers :
                                 \A q \in movers : 8 * p.row + p.col <= 8 * q.row + q.col
                  IN  LegalExecution(first, target)]_vars

\* "f3" was spoken with white to move on the initial position: the pawn on f2
\* and the knight on g1 could both reach f3, and the pawn (row 6) moved
C9_Witness ==
    /\ lastVoiceCommand = f3
    /\ voiceState = "moved"
    /\ board = [initialBoard EXCEPT ![6][5] = Null, ![5][5] = Piece("pawn", "white")]
    /\ isValidMove(initialBoard, "white", 7, 6, 5, 5)

\* C10: a transcript that is not a bare destination and holds at least two
\* square names moves from the first square name to the next one after it
\* exactly when isValidMove accepts that pair; otherwise nothing changes.
C10_FirstTwoSquareNames ==
    [][(VoiceEffect /\ gameStarted /\ Len(lastVoiceCommand) # 2
          /\ Cardinality(SquareNamesIn(lastVoiceCommand)) >= 2) =>
         LET i == Least(SquareNamesIn(lastVoiceCommand))
             j == Least(SquareNamesIn(lastVoiceCommand) \ {i})
             from == parseSquareNotation(SubSeq(lastVoiceCommand, i, i + 1))
             to == parseSquareNotation(SubSeq(lastVoiceCommand, j, j + 1))
         IN  IF isValidMove(board, currentPlayer, from.row, from.col, to.row, to.col)
             THEN LegalExecution(from, to)
             ELSE NoMove]_vars

(***************************************************************************)
(* C11..C20                                                                *)
(***************************************************************************)

\* the transcripts that name a piece kind and one destination square
PieceCommands ==
    { [text |-> knightF3, kind |-> "knight", to |-> <<"f", "3">>],
      [text |-> queenH5, kind |-> "queen", to |-> <<"h", "5">>] }

\* C11: a transcript that names a piece kind and a single destination square
\* moves a piece of that kind of the side to move to that square whenever
\* one can legally reach it.
C11_PieceNameDestination ==
    [][\A pc \in PieceCommands :
         LET target == parseSquareNotation(pc.to)
         IN  (VoiceEffect /\ gameStarted /\ lastVoiceCommand = pc.text
                /\ KindMovers(pc.kind, target) # {}) =>
               \E from \in KindMovers(pc.kind, target) : LegalExecution(from, target)]_vars

\* C12: evaluating a transcript never hands isValidMove an origin outside
\* the grid (the one cell it reads before any range check), and its outcome
\* is either no move at all or one legal execution between two grid cells;
\* a transcript without a well-formed square name makes no move.
C12_VoiceNeverFails ==
    [][VoiceEffect =>
         LET sq == VoiceSquares(board, currentPlayer, lastVoiceCommand)
         IN  /\ (gameStarted /\ sq[1] # Null /\ sq[2] # Null) =>
                   (parseSquareNotation(sq[1]) \in Squares /\ parseSquareNotation(sq[2]) \in Squares)
             /\ (NoMove \/ \E from \in Squares, to \in Squares : LegalExecution(from, to))
             /\ SquareNamesIn(toLowerCase(lastVoiceCommand)) = {} => NoMove]_vars

\* the transcript "e9", a file with a rank outside 1..8, was evaluated on the
\* initial position and made no move
C12_Witness ==
    /\ lastVoiceCommand = <<"e", "9">>
    /\ voiceState = "dropped"
    /\ pendingEffects = {}
    /\ board = initialBoard

\* str is a file a..h followed by a rank 1..8
IsSquareName(str) == Len(str) = 2 /\ str[1] \in FileChars /\ str[2] \in RankChars

\* C13: the codec is a bijection between the 64 cells and the 64 square
\* names: parsing the name written for a cell gives the cell back, writing
\* the cell parsed from a name gives the name back, rank 8 is row 0 and
\* file a is column 0.
C13_CodecRoundTrip ==
    [][/\ WriteNotation =>
            /\ IsSquareName(lastVoiceCommand')
            /\ parseSquareNotation(lastVoiceCommand') = selectedSquare
            /\ (selectedSquare.row = 0 <=> lastVoiceCommand'[2] = "8")
            /\ (selectedSquare.col = 0 <=> lastVoiceCommand'[1] = "a")
       /\ (ParseNotation /\ IsSquareName(lastVoiceCommand)) =>
            /\ selectedSquare' \in Squares
            /\ getSquareNotation(selectedSquare'.row, selectedSquare'.col) = lastVoiceCommand
            /\ (selectedSquare'.row = 0 <=> lastVoiceCommand[2] = "8")
            /\ (selectedSquare'.col = 0 <=> lastVoiceCommand[1] = "a")]_vars

\* the cell (7, 2) was written as "c1"
C13_Witness ==
    /\ selectedSquare = Pos(7, 2)
    /\ lastVoiceCommand = <<"c", "1">>
    /\ ~gameStarted

\* C14: parseSquareNotation yields no square for every string that is not a
\* file a..h followed by a rank 1..8, and never a pair with a row or a
\* column outside 0..7.
C14_MalformedYieldsNoSquare ==
    [][ParseNotation =>
         IF IsSquareName(lastVoiceCommand)
         THEN selectedSquare' \in Squares
         ELSE selectedSquare' = Null]_vars

\* the destinations calculateValidMoves found for the selected cell
Destinations == {validMoves[i] : i \in 1..Len(validMoves)}

\* the coordinates just around the grid as well
Around == -1..8

\* C15: isValidMove is false whenever the destination is outside the grid,
\* or equals the origin, or the origin is empty, or the piece on the origin
\* is not of the turn color, or the destination holds a piece of the color
\* of the moving piece; so every move it accepts moves a piece of the side
\* to move to a cell that is empty or held by the other color.
C15_GeneralPreconditions ==
    selectedSquare # Null =>
        LET from == selectedSquare
            piece == board[from.row][from.col]
            Accepts(toRow, toCol) == isValidMove(board, currentPlayer, from.row, from.col, toRow, toCol)
        IN  /\ \A toRow \in Around, toCol \in Around :
                 IF toRow \notin Rows \/ toCol \notin Cols THEN ~Accepts(toRow, toCol)
                 ELSE IF toRow = from.row /\ toCol = from.col THEN ~Accepts(toRow, toCol)
                 ELSE IF piece = Null THEN ~Accepts(toRow, toCol)
                 ELSE IF piece.color # currentPlayer THEN ~Accepts(toRow, toCol)
                 ELSE IF board[toRow][toCol] # Null /\ board[toRow][toCol].color = piece.color
                      THEN ~Accepts(toRow, toCol)
                      ELSE TRUE
            /\ \A to \in Destinations :
                 /\ piece # Null
                 /\ piece.color = currentPlayer
                 /\ board[to.row][to.col] = Null \/ board[to.row][to.col].color # currentPlayer

\* with black to move a white pawn was selected on the initial position:
\* no destination
C15_Witness ==
    /\ board = initialBoard
    /\ currentPlayer = "black"
    /\ selectedSquare = Pos(6, 4)
    /\ validMoves = <<>>

\* the destinations of the 20 opening moves from a cell of the initial position
OpeningMoves(from) ==
    IF from.row = 6 THEN {Pos(5, from.col), Pos(4, from.col)}
    ELSE IF from = Pos(7, 1) THEN {Pos(5, 0), Pos(5, 2)}
    ELSE IF from = Pos(7, 6) THEN {Pos(5, 5), Pos(5, 7)}
    ELSE {}

\* the cells strictly between two cells of one row, column or diagonal
Between(from, to) ==
    IF from.row = to.row \/ from.col = to.col
         \/ Abs(from.row - to.row) = Abs(from.col - to.col)
    THEN {p \in Squares :
            /\ p # from /\ p # to
            /\ (p.row - from.row) * (to.col - from.col) = (p.col - from.col) * (to.row - from.row)
            /\ Abs(p.row - from.row) + Abs(to.row - p.row) = Abs(to.row - from.row)
            /\ Abs(p.col - from.col) + Abs(to.col - p.col) = Abs(to.col - from.col)}
    ELSE {}

\* the piece of the given kind runs along the line from one cell to the other
SlidesAlong(kind, from, to) ==
    CASE kind = "rook" -> from.row = to.row \/ from.col = to.col
      [] kind = "bishop" -> Abs(from.row - to.row) = Abs(from.col - to.col)
      [] kind = "queen" -> \/ from.row = to.row \/ from.col = to.col
                          \/ Abs(from.row - to.row) = Abs(from.col - to.col)
      [] OTHER -> FALSE

\* C16: on the initial position with white to move isValidMove accepts each
\* of the 20 opening moves (8 single and 8 double pawn advances, 4 knight
\* moves) and rejects every rook, bishop or queen move that would pass over
\* an occupied cell.
C16_OpeningMoves ==
    (board = initialBoard /\ currentPlayer = "white" /\ selectedSquare # Null) =>
        LET from == selectedSquare
            piece == board[from.row][from.col]
        IN  /\ OpeningMoves(from) \subseteq Destinations
            /\ \A to \in Squares :
                 (/\ piece # Null
                  /\ SlidesAlong(piece.type, from, to)
                  /\ \E p \in Between(from, to) : board[p.row][p.col] # Null)
                 => to \notin Destinations

\* the knight on b1 was selected on the initial position: a3 and c3
C16_Witness ==
    /\ board = initialBoard
    /\ currentPlayer = "white"
    /\ selectedSquare = Pos(7, 1)
    /\ validMoves = <<Pos(5, 0), Pos(5, 2)>>

\* C17: a knight move that passes the general preconditions is legal exactly
\* when the absolute row and column deltas are 1 and 2 in either order,
\* whatever stands in between; a lone knight of the side to move on d4 has
\* exactly the destinations b3, b5, c2, c6, e2, e6, f3, f5.
C17_KnightMoves ==
    (/\ selectedSquare # Null
     /\ board[selectedSquare.row][selectedSquare.col] # Null
     /\ board[selectedSquare.row][selectedSquare.col].type = "knight"
     /\ board[selectedSquare.row][selectedSquare.col].color = currentPlayer) =>
        LET from == selectedSquare
        IN  /\ \A to \in Squares :
                 (/\ to # from
                  /\ board[to.row][to.col] = Null \/ board[to.row][to.col].color # currentPlayer)
                 => (to \in Destinations <=>
                       {Abs(from.row - to.row), Abs(from.col - to.col)} = {1, 2})
            /\ (board = knightBoard(currentPlayer) /\ from = parseSquareNotation(<<"d", "4">>)) =>
                 /\ Len(validMoves) = 8
                 /\ Destinations = {parseSquareNotation(n) :
                        n \in { <<"b", "3">>, <<"b", "5">>, <<"c", "2">>, <<"c", "6">>,
                                <<"e", "2">>, <<"e", "6">>, <<"f", "3">>, <<"f", "5">> }}

\* the lone white knight on d4 was selected with white to move
C17_Witness ==
    /\ board = knightBoard("white")
    /\ currentPlayer = "white"
    /\ selectedSquare = Pos(4, 3)
    /\ Len(validMoves) = 8

\* C18: a pawn move over two rows is legal exactly when the pawn stands on
\* the starting row of its color, goes forward in its own column, and the
\* cell it passes and the destination are both empty.
C18_PawnDoubleAdvance ==
    (/\ selectedSquare # Null
     /\ board[selectedSquare.row][selectedSquare.col] # Null
     /\ board[selectedSquare.row][selectedSquare.col].type = "pawn"
     /\ board[selectedSquare.row][selectedSquare.col].color = currentPlayer) =>
        LET from == selectedSquare
            forward == IF currentPlayer = "white" THEN -1 ELSE 1
            home == IF currentPlayer = "white" THEN 6 ELSE 1
        IN  \A to \in Squares :
              Abs(to.row - from.row) = 2 =>
                (to \in Destinations <=>
                    /\ from.row = home
                    /\ to.row = from.row + 2 * forward
                    /\ to.col = from.col
                    /\ board[from.row + forward][from.col] = Null
                    /\ board[to.row][to.col] = Null)

\* the white pawn on b2, with a black knight right ahead on b3, was selected:
\* the double advance to the empty b4 is not among its destinations
C18_Witness ==
    /\ board = pawnBoard
    /\ currentPlayer = "white"
    /\ selectedSquare = Pos(6, 1)
    /\ board[5][1] = Piece("knight", "black")
    /\ board[4][1] = Null
    /\ validMoves = <<>>

\* the cells of b that hold a piece of the given colors and kinds
PiecesOf(b, colors, kinds) ==
    {p \in Squares : b[p.row][p.col] # Null /\ b[p.row][p.col].color \in colors
                                            /\ b[p.row][p.col].type \in kinds}

Colors == {"white", "black"}
Kinds == {"pawn", "rook", "knight", "bishop", "queen", "king"}

\* at most 32 pieces on b, at most 16 of each color
PieceBounds(b) ==
    /\ Cardinality(PiecesOf(b, Colors, Kinds)) <= 32
    /\ \A color \in Colors : Cardinality(PiecesOf(b, {color}, Kinds)) <= 16

\* C19: every cell holds one piece or none, the board never holds more than
\* 32 pieces or more than 16 of one color, and an accepted move never
\* increases the number of pieces of any color and kind and lowers the total
\* by one when the destination was occupied and by nothing otherwise.  The
\* bounds are stated for every step that changes the board, before and after.
C19_PieceCounts ==
    [][/\ board' # board =>
            /\ PieceBounds(board)
            /\ PieceBounds(board')
            /\ \A p \in Squares : board'[p.row][p.col] = Null
                                    \/ board'[p.row][p.col] \in [type : Kinds, color : Colors]
       /\ executed' # executed =>
            LET to == parseSquareNotation(NewRecord.to)
                total(b) == Cardinality(PiecesOf(b, Colors, Kinds))
            IN  /\ \A color \in Colors, kind \in Kinds :
                     Cardinality(PiecesOf(board', {color}, {kind}))
                        <= Cardinality(PiecesOf(board, {color}, {kind}))
                /\ total(board') = IF board[to.row][to.col] # Null
                                   THEN total(board) - 1
                                   ELSE total(board)]_vars

\* a capture has been accepted: 31 pieces are left, 15 of them black
C19_Witness ==
    /\ executed > 0
    /\ Cardinality(PiecesOf(board, Colors, Kinds)) = 31
    /\ Cardinality(PiecesOf(board, {"black"}, Kinds)) = 15

\* s is an initial segment of t
IsPrefix(s, t) == Len(s) <= Len(t) /\ SubSeq(t, 1, Len(s)) = s

\* C20: within one game the history is append-only: every step other than a
\* game start keeps the earlier history as a prefix of the later one, so no
\* record is removed, reordered or changed, and only a game start empties it.
C20_HistoryAppendOnly ==
    [][/\ ~StartNewGame => IsPrefix(moveHistory, moveHistory')
       /\ (moveHistory # <<>> /\ moveHistory' = <<>>) => StartNewGame]_vars

\* two records were appended in one game
C20_Witness ==
    /\ gameStarted
    /\ Len(moveHistory) = 2
    /\ executed = 2
    /\ moveHistory[1].from = e2

(***************************************************************************)
(* C21..C29                                                                *)
(***************************************************************************)

\* the step leaves board, turn, selection and history alone
NoGameChange == UNCHANGED <<board, currentPlayer, selectedSquare, validMoves, moveHistory>>

\* C21: while the game has not been started, every click and every
\* transcript (its arrival and its evaluation) leaves board, turn, selection
\* and history unchanged; a move is accepted only in a started game.
C21_NotStartedNoChange ==
    [][/\ (~gameStarted /\ (HandleSquareClick \/ HandleVoiceMove \/ VoiceEffect)) => NoGameChange
       /\ executed' # executed => gameStarted]_vars

\* the transcript "e4" arrived before the game was started and was evaluated:
\* the board is the initial one and nothing was recorded
C21_Witness ==
    /\ ~gameStarted
    /\ lastVoiceCommand = e4
    /\ pendingEffects = {}
    /\ board = initialBoard
    /\ moveHistory = <<>>

\* the step is a click on the cell sq
ClickStep(sq) ==
    /\ pendingEffects = {}
    /\ SquareClick(sq.row, sq.col)
    /\ UNCHANGED <<gameStarted, gameMode, lastVoiceCommand, voiceState>>

\* C22: a rejected candidate changes no game state: a pair of square names
\* from a transcript that isValidMove rejects leaves board, turn, selection
\* and history unchanged, and a click on a cell that is no legal target
\* from the selected cell leaves board, turn and history unchanged (it may
\* change the selection only).
C22_RejectedNoChange ==
    [][/\ \/ NoGameChange
          \/ ~(VoiceEffect /\ gameStarted /\ lastVoiceCommand # <<>>)
          \/ LET sq == VoiceSquares(board, currentPlayer, lastVoiceCommand)
             IN  ~(/\ sq[1] # Null
                   /\ sq[2] # Null
                   /\ ~isValidMove(board, currentPlayer,
                                   parseSquareNotation(sq[1]).row, parseSquareNotation(sq[1]).col,
                                   parseSquareNotation(sq[2]).row, parseSquareNotation(sq[2]).col))
       /\ \/ NoMove
          \/ \A sq \in ClickSquares :
               ~(/\ ClickStep(sq)
                 /\ \/ selectedSquare = Null
                    \/ ~isValidMove(board, currentPlayer, selectedSquare.row,
                                    selectedSquare.col, sq.row, sq.col))]_vars

\* with black to move the transcript "d7 / e2 e4" gave the pair (e2, e4),
\* which isValidMove rejects, and was dropped
C22_Witness ==
    /\ gameStarted
    /\ currentPlayer = "black"
    /\ lastVoiceCommand = <<"d", "7", "\n", "e", "2", " ", "e", "4">>
    /\ voiceState = "dropped"
    /\ pendingEffects = {}

\* the selected cell holds a piece of the given kinds of the side to move
SelectedIs(kinds) ==
    /\ selectedSquare # Null
    /\ board[selectedSquare.row][selectedSquare.col] # Null
    /\ board[selectedSquare.row][selectedSquare.col].type \in kinds
    /\ board[selectedSquare.row][selectedSquare.col].color = currentPlayer

\* the cell is not the selected one and holds no piece of the side to move
Open(to) ==
    /\ to # selectedSquare
    /\ board[to.row][to.col] = Null \/ board[to.row][to.col].color # currentPlayer

\* C23: a pawn move other than the two-row advance is legal in exactly two
\* shapes: one row forward in its column onto an empty cell, or one row
\* forward one column aside onto a piece of the other color (white forward
\* is the decreasing row, black forward the increasing row); so never
\* backward, never sideways, never a capture straight ahead and never a
\* diagonal step onto an empty cell.
C23_PawnSingleStep ==
    SelectedIs({"pawn"}) =>
        LET from == selectedSquare
            forward == IF currentPlayer = "white" THEN -1 ELSE 1
        IN  \A to \in Squares :
              Abs(to.row - from.row) # 2 =>
                (to \in Destinations <=>
                    /\ to.row = from.row + forward
                    /\ \/ to.col = from.col /\ board[to.row][to.col] = Null
                       \/ /\ Abs(to.col - from.col) = 1
                          /\ board[to.row][to.col] # Null
                          /\ board[to.row][to.col].color # currentPlayer)

\* the white pawn on a2 was selected: a4, a3 and the capture of the black
\* knight on b3
C23_Witness ==
    /\ board = pawnBoard
    /\ currentPlayer = "white"
    /\ selectedSquare = Pos(6, 0)
    /\ validMoves = <<Pos(4, 0), Pos(5, 0), Pos(5, 1)>>

\* C24: with the general preconditions passed, a rook move is legal exactly
\* along a row or a column, a bishop move exactly along a diagonal and a
\* queen move exactly along either, each with every cell strictly between
\* origin and destination empty; what stands on the destination does not
\* enter the path check.
C24_SlidingMoves ==
    SelectedIs({"rook", "bishop", "queen"}) =>
        LET from == selectedSquare
            kind == board[from.row][from.col].type
        IN  \A to \in Squares :
              Open(to) =>
                (to \in Destinations <=>
                    /\ SlidesAlong(kind, from, to)
                    /\ \A p \in Between(from, to) : board[p.row][p.col] = Null)

\* the white queen on d4 was selected: it reaches the black pieces on a4, d6
\* and g7 and nothing behind them or behind its own pawn on d2
C24_Witness ==
    /\ board = pieceBoard
    /\ currentPlayer = "white"
    /\ selectedSquare = Pos(4, 3)
    /\ {Pos(4, 0), Pos(2, 3), Pos(1, 6)} \subseteq Destinations
    /\ Destinations \cap {Pos(1, 3), Pos(0, 7), Pos(6, 3), Pos(7, 3)} = {}

\* C25: with the general preconditions passed, a king move is legal exactly
\* when neither delta exceeds one; an attacked destination is accepted and
\* no move over two columns is.
C25_KingMoves ==
    SelectedIs({"king"}) =>
        LET from == selectedSquare
        IN  \A to \in Squares :
              Open(to) =>
                (to \in Destinations <=>
                    Abs(to.row - from.row) <= 1 /\ Abs(to.col - from.col) <= 1)

\* the white king on e1 was selected: f1, which the black rook on f8 attacks,
\* is a destination, the castling cells c1 and g1 are not
C25_Witness ==
    /\ board = pieceBoard
    /\ currentPlayer = "white"
    /\ selectedSquare = Pos(7, 4)
    /\ Pos(7, 5) \in Destinations
    /\ isValidMove(board, "black", 0, 5, 7, 5)
    /\ Pos(7, 6) \notin Destinations
    /\ Pos(7, 2) \notin Destinations

\* C29: isValidMove terminates for every board and every pair of cells of
\* the grid: it calls isPathClear only with a vector along a row, a column
\* or a diagonal, and the loop of isPathClear then reads fewer than 8
\* cells, all of them on the grid and strictly between origin and
\* destination.
C29_PathCheckTerminates ==
    \A from \in Squares, to \in Squares :
        reachesIsPathClear(board, currentPlayer, from.row, from.col, to.row, to.col) =>
            LET cells == isPathClearReads(board, from.row, from.col, to.row, to.col)
            IN  /\ \/ from.row = to.row
                   \/ from.col = to.col
                   \/ Abs(from.row - to.row) = Abs(from.col - to.col)
                /\ Len(cells) < 8
                /\ \A i \in 1..Len(cells) : cells[i] \in Between(from, to)

\* the white rook on h1 was selected: on its way to h8 the loop read the six
\* cells h2..h7
C29_Witness ==
    /\ board = pieceBoard
    /\ currentPlayer = "white"
    /\ selectedSquare = Pos(7, 7)
    /\ Pos(0, 7) \in Destinations
    /\ Len(isPathClearReads(board, 7, 7, 0, 7)) = 6

\* C26: whenever a cell is selected it holds a piece of the side to move
\* and the highlighted destinations are exactly the cells isValidMove accepts
\* from it on the current board and turn; the selected cell and the cells
\* of the mover's own pieces are never among them.
C26_SelectionMatchesLegality ==
    selectedSquare # Null =>
        /\ board[selectedSquare.row][selectedSquare.col] # Null
        /\ board[selectedSquare.row][selectedSquare.col].color = currentPlayer
        /\ Destinations =
              {to \in Squares : isValidMove(board, currentPlayer, selectedSquare.row,
                                            selectedSquare.col, to.row, to.col)}
        /\ \A to \in Destinations : Open(to)

\* the step clears the selection
ClearsSelection == selectedSquare' = Null /\ validMoves' = <<>>

\* C27: with a cell selected, a click on the selected cell clears the
\* selection; a click on a legal destination executes the move; a click on
\* any other cell selects that cell, with its legal destinations, when it
\* holds a piece of the side to move and clears the selection otherwise;
\* every accepted move clears the selection.
C27_ClickWithSelection ==
    [][/\ \A sq \in Squares :
            (gameStarted /\ selectedSquare # Null /\ ClickStep(sq)) =>
               IF sq = selectedSquare THEN ClearsSelection /\ NoMove
               ELSE IF isValidMove(board, currentPlayer, selectedSquare.row,
                                   selectedSquare.col, sq.row, sq.col)
               THEN LegalExecution(selectedSquare, sq) /\ ClearsSelection
               ELSE IF board[sq.row][sq.col] # Null /\ board[sq.row][sq.col].color = currentPlayer
               THEN /\ selectedSquare' = sq
                    /\ {validMoves'[i] : i \in 1..Len(validMoves')} =
                          {to \in Squares :
                             isValidMove(board, currentPlayer, sq.row, sq.col, to.row, to.col)}
                    /\ NoMove
               ELSE ClearsSelection /\ NoMove
       /\ executed' # executed => ClearsSelection]_vars

\* after e2-e4 the black pawn on d7 is selected, next to the black pawn on
\* e7, a cell of the side to move that is no destination of d7
C27_Witness ==
    /\ executed = 1
    /\ currentPlayer = "black"
    /\ selectedSquare = Pos(1, 3)
    /\ validMoves = <<Pos(2, 3), Pos(3, 3)>>
    /\ board[1][4] = Piece("pawn", "black")
    /\ board[4][4] = Piece("pawn", "white")

RECURSIVE Replay(_, _, _)
\* the board after the relocations of the records k, k + 1, .. of the
\* history have been applied to b in order
Replay(b, history, k) ==
    IF k > Len(history) THEN b
    ELSE LET from == parseSquareNotation(history[k].from)
             to == parseSquareNotation(history[k].to)
         IN  Replay([b EXCEPT ![to.row][to.col] = b[from.row][from.col],
                               ![from.row][from.col] = Null], history, k + 1)

\* C28: in a started game the board is the replay of the history on the
\* initial position, and the piece field of each record is the kind of the
\* piece that stood on its from cell when the record was made.
C28_BoardIsReplay ==
    gameStarted =>
        /\ board = Replay(initialBoard, moveHistory, 1)
        /\ \A k \in 1..Len(moveHistory) :
             LET before == Replay(initialBoard, SubSeq(moveHistory, 1, k - 1), 1)
                 from == parseSquareNotation(moveHistory[k].from)
             IN  /\ before[from.row][from.col] # Null
                 /\ moveHistory[k].piece = before[from.row][from.col].type

====
